---- MODULE Spec2Model ----
(***************************************************************************)
(* Model of stock_tool.py: a command-line layer over an external market    *)
(* data facility.  One run of the program is one invocation of one of the  *)
(* four handlers (cmd_quote, cmd_history, cmd_news, cmd_technical); the    *)
(* external facility is the environment and answers every call with        *)
(* records, with an empty result, or by raising.                           *)
(*                                                                         *)
(* Python values are modelled as follows.                                  *)
(*   str    a TLA+ string (Len, \o and SubSeq act on its characters)       *)
(*   None   the record None                                                *)
(*   number Num(v), v an integer (the float grid is the integers)          *)
(*   dict   a sequence of <<key, value>> pairs with distinct keys, in      *)
(*          insertion order                                                *)
(*   list   a sequence                                                     *)
(* The captions of the interpret_* functions are Chinese text in the       *)
(* source; the model names each by an ASCII gloss, the source text is in   *)
(* the comment next to it.                                                 *)
(***************************************************************************)
EXTENDS Integers, Sequences, FiniteSets, TLC

VARIABLES
    pc,          \* position of the run: "main", "loop", "exit"; "fn" in FnSpec
    argv,        \* the command line: command, symbol and the options given
    args,        \* the argparse Namespace handed to the handler
    out,         \* documents written to standard output, in order
    exitStatus,  \* process exit status once pc = "exit"
    history,     \* cmd_technical: history.results
    indicators,  \* cmd_technical: the list of normalised indicator names
    results,     \* cmd_technical: results["indicators"]
    idx,         \* cmd_technical: position of the for loop in indicators
    calls,       \* log of the calls made on the external facility
    fn,          \* pure-function runs: the function under test
    fnArgs,      \* its arguments
    fnDone,      \* whether it has returned
    fnResult     \* its return value

vars == <<pc, argv, args, out, exitStatus, history, indicators, results, idx, calls,
          fn, fnArgs, fnDone, fnResult>>

handlerVars == <<pc, argv, args, out, exitStatus, history, indicators, results, idx, calls>>

fnVars == <<fn, fnArgs, fnDone, fnResult>>

-----------------------------------------------------------------------------
(* Bounds of the model *)

\* RSI inputs range over 0..MaxRsi
MaxRsi == 100

\* MACD inputs range over -MaxMacd..MaxMacd
MaxMacd == 2

\* Stochastic inputs range over 0..MaxStoch
MaxStoch == 100

\* largest number of keys of a mapping given to format_output
MaxCols == 2

\* largest number of keys of a mapping given to get_indicator_value
MaxKeys == 2

-----------------------------------------------------------------------------
(* Python values *)

None == [t |-> "none"]

Num(v) == [t |-> "num", v |-> v]

Str(s) == [t |-> "str", s |-> s]

IsNone(x) == x.t = "none"

Digit(d) == SubSeq("0123456789", d + 1, d + 1)

RECURSIVE NatToStr(_)
NatToStr(n) == IF n < 10 THEN Digit(n) ELSE NatToStr(n \div 10) \o Digit(n % 10)

IntToStr(n) == IF n < 0 THEN "-" \o NatToStr(0 - n) ELSE NatToStr(n)

\* str(x)
PyStr(x) ==
    CASE x.t = "none" -> "None"
      [] x.t = "num" -> IntToStr(x.v)
      [] x.t = "str" -> x.s

\* sub in s
Contains(s, sub) ==
    \E i \in 1..(Len(s) - Len(sub) + 1) : SubSeq(s, i, i + Len(sub) - 1) = sub

RECURSIVE Repeat(_, _)
Repeat(c, n) == IF n <= 0 THEN "" ELSE c \o Repeat(c, n - 1)

\* s.ljust(w)
Ljust(s, w) == s \o Repeat(" ", w - Len(s))

\* sep.join(parts)
RECURSIVE Join(_, _)
Join(sep, parts) ==
    IF Len(parts) = 0 THEN ""
    ELSE IF Len(parts) = 1 THEN parts[1]
    ELSE parts[1] \o sep \o Join(sep, Tail(parts))

Max(a, b) == IF a >= b THEN a ELSE b

RECURSIVE MaxOf(_, _)
\* max(seq, default=dflt)
MaxOf(seq, dflt) ==
    IF Len(seq) = 0 THEN dflt
    ELSE IF Len(seq) = 1 THEN seq[1]
    ELSE Max(seq[1], MaxOf(Tail(seq), dflt))

(* dict *)

Keys(d) == [i \in 1..Len(d) |-> d[i][1]]

HasKey(d, k) == \E i \in 1..Len(d) : d[i][1] = k

\* d.get(k, dflt)
Get(d, k, dflt) ==
    IF HasKey(d, k) THEN d[CHOOSE i \in 1..Len(d) : d[i][1] = k][2] ELSE dflt

\* d[k] = v
Put(d, k, v) ==
    IF HasKey(d, k)
    THEN [i \in 1..Len(d) |-> IF d[i][1] = k THEN <<k, v>> ELSE d[i]]
    ELSE Append(d, <<k, v>>)

-----------------------------------------------------------------------------
(* Field extractor *)

find_indicator_key_first(data, pattern) ==
    IF Len(data) > 0 /\ Contains(data[1][1], pattern)
    THEN Str(data[1][1]) ELSE None

\* the first key, in iteration order, that contains pattern; None if none does
find_indicator_key(data, pattern) ==
    IF \E i \in 1..Len(data) : Contains(data[i][1], pattern)
    THEN LET i == CHOOSE j \in 1..Len(data) :
                      /\ Contains(data[j][1], pattern)
                      /\ \A k \in 1..(j - 1) : ~Contains(data[k][1], pattern)
         IN Str(data[i][1])
    ELSE None

\* data.get(key) if key else None: an empty key is as false as None
get_indicator_value(data, pattern) ==
    LET key == find_indicator_key(data, pattern)
    IN IF ~IsNone(key) /\ key.s # "" THEN Get(data, key.s, None) ELSE None

-----------------------------------------------------------------------------
(* Output formatter *)

\* col_widths: the longest of the header and the column's cells
table_widths(headers, rows) ==
    [i \in 1..Len(headers) |->
        Max(Len(headers[i]), MaxOf([r \in 1..Len(rows) |-> Len(rows[r][i])], 0))]

format_table_first_row_only(data) ==
    LET headers == Keys(data[1])
        rows == [r \in 1..1 |->
                    [i \in 1..Len(headers) |-> PyStr(Get(data[r], headers[i], Str("")))]]
        w == table_widths(headers, rows)
        header_line == Join(" | ", [i \in 1..Len(headers) |-> Ljust(headers[i], w[i])])
        separator == Join("-+-", [i \in 1..Len(headers) |-> Repeat("-", w[i])])
        data_lines == [r \in 1..Len(rows) |->
                          Join(" | ", [i \in 1..Len(headers) |-> Ljust(rows[r][i], w[i])])]
    IN Join("\n", <<header_line, separator>> \o data_lines)

\* the table branch for a non-empty list of mappings
format_table(data) ==
    LET headers == Keys(data[1])
        rows == [r \in 1..Len(data) |->
                    [i \in 1..Len(headers) |-> PyStr(Get(data[r], headers[i], Str("")))]]
        w == table_widths(headers, rows)
        header_line == Join(" | ", [i \in 1..Len(headers) |-> Ljust(headers[i], w[i])])
        separator == Join("-+-", [i \in 1..Len(headers) |-> Repeat("-", w[i])])
        data_lines == [r \in 1..Len(rows) |->
                          Join(" | ", [i \in 1..Len(headers) |-> Ljust(rows[r][i], w[i])])]
    IN Join("\n", <<header_line, separator>> \o data_lines)

\* format_output(data, fmt); isList tells a list of mappings from a single mapping.
\* json.dumps and str(data) are kept as tagged documents of the value they render.
format_output(data, isList, fmt) ==
    LET shape == IF isList THEN "list" ELSE "dict"
    IN IF fmt = "json" THEN [kind |-> "json", shape |-> shape, value |-> data]
       ELSE IF fmt = "table" /\ isList /\ Len(data) > 0
            THEN [kind |-> "table", text |-> format_table(data)]
            ELSE [kind |-> "repr", shape |-> shape, value |-> data]

-----------------------------------------------------------------------------
(* Interpretation classifiers.  Captions (source text in the comment):     *)
(*   "cannot compute"   无法计算                                           *)
(*   "rsi overbought"   超买区域，可能面临回调压力                         *)
(*   "rsi oversold"     超卖区域，可能存在反弹机会                         *)
(*   "rsi bullish"      偏强势，多头占优                                   *)
(*   "rsi bearish"      偏弱势，空头占优                                   *)
(*   "macd golden cross"  金叉形态，多头信号                               *)
(*   "macd death cross"   死叉形态，空头信号                               *)
(*   "macd above zero"    MACD 在零轴上方，整体偏多                        *)
(*   "macd below zero"    MACD 在零轴下方，整体偏空                        *)
(*   "adx trending"     趋势明显，适合趋势跟踪策略                         *)
(*   "adx ranging"      趋势不明显，市场可能处于震荡                       *)
(*   "stoch overbought" 超买区域，注意回调风险                             *)
(*   "stoch oversold"   超卖区域，可能存在反弹机会                         *)
(*   "stoch k above d"  K线上穿D线，短期偏多                               *)
(*   "stoch k below d"  K线下穿D线，短期偏空                               *)

interpret_rsi_strict(value) ==
    IF IsNone(value) THEN "cannot compute"
    ELSE IF value.v > 70 THEN "rsi overbought"
    ELSE IF value.v < 30 THEN "rsi oversold"
    ELSE IF value.v > 50 THEN "rsi bullish"
    ELSE "rsi bearish"

interpret_rsi(value) ==
    IF IsNone(value) THEN "cannot compute"
    ELSE IF value.v >= 70 THEN "rsi overbought"
    ELSE IF value.v <= 30 THEN "rsi oversold"
    ELSE IF value.v >= 50 THEN "rsi bullish"
    ELSE "rsi bearish"

interpret_macd_histogram_only(data) ==
    LET macd == Get(data, "macd", None)
        signal == Get(data, "signal", None)
        h0 == Get(data, "histogram", None)
    IN IF IsNone(macd) \/ IsNone(signal) THEN "cannot compute"
       ELSE LET histogram == IF IsNone(h0) THEN macd.v - signal.v ELSE h0.v
            IN IF histogram > 0 THEN "macd golden cross"
               ELSE IF histogram < 0 THEN "macd death cross"
               ELSE IF macd.v > 0 THEN "macd above zero"
               ELSE "macd below zero"

interpret_macd(data) ==
    LET macd == Get(data, "macd", None)
        signal == Get(data, "signal", None)
        h0 == Get(data, "histogram", None)
    IN IF IsNone(macd) \/ IsNone(signal) THEN "cannot compute"
       ELSE LET histogram == IF IsNone(h0) THEN macd.v - signal.v ELSE h0.v
            IN IF macd.v > signal.v /\ histogram > 0 THEN "macd golden cross"
               ELSE IF macd.v < signal.v /\ histogram < 0 THEN "macd death cross"
               ELSE IF macd.v > 0 THEN "macd above zero"
               ELSE "macd below zero"

interpret_adx(value) ==
    IF IsNone(value) THEN "cannot compute"
    ELSE IF value.v >= 25 THEN "adx trending"
    ELSE "adx ranging"

interpret_stoch_either(data) ==
    LET k == Get(data, "k", None)
        d == Get(data, "d", None)
    IN IF IsNone(k) \/ IsNone(d) THEN "cannot compute"
       ELSE IF k.v >= 80 \/ d.v >= 80 THEN "stoch overbought"
       ELSE IF k.v <= 20 \/ d.v <= 20 THEN "stoch oversold"
       ELSE IF k.v >= d.v THEN "stoch k above d"
       ELSE "stoch k below d"

interpret_stoch(data) ==
    LET k == Get(data, "k", None)
        d == Get(data, "d", None)
    IN IF IsNone(k) \/ IsNone(d) THEN "cannot compute"
       ELSE IF k.v >= 80 /\ d.v >= 80 THEN "stoch overbought"
       ELSE IF k.v <= 20 /\ d.v <= 20 THEN "stoch oversold"
       ELSE IF k.v > d.v THEN "stoch k above d"
       ELSE "stoch k below d"

-----------------------------------------------------------------------------
(* The command line and main() *)

\* largest number of names in a user-supplied --indicators list
MaxInd == 2

\* longest series an indicator call returns
MaxRecords == 11

\* data[-10:]
RecentCount == 10

Symbols == {"AAPL", "INVALID123"}

\* one token of an --indicators list (no comma inside)
IndicatorTokens == {" RSI", "macd", "sma", "ema", "bbands", "adx", "stoch", "Foo "}

RECURSIVE TokenLists(_)
TokenLists(n) ==
    IF n = 0 THEN {<<>>}
    ELSE LET S == TokenLists(n - 1)
         IN S \cup {Append(l, t) : l \in {m \in S : Len(m) = n - 1}, t \in IndicatorTokens}

IndicatorLists == {Str(Join(",", l)) : l \in TokenLists(MaxInd) \ {<<>>}}

\* the sets of options a user may give: fs is a sequence of <<flag, values>>
RECURSIVE OptsOver(_)
OptsOver(fs) ==
    IF Len(fs) = 0 THEN {<<>>}
    ELSE LET rest == OptsOver(Tail(fs))
         IN rest \cup {<<<<fs[1][1], v>>>> \o r : v \in fs[1][2], r \in rest}

FormatFlag == <<"format", {Str("table")}>>

StartFlag == <<"start", {Str("2024-01-01")}>>

EndFlag == <<"end", {Str("2024-12-31")}>>

CommandLines ==
    [command : {"quote"}, symbol : Symbols, opts : OptsOver(<<FormatFlag>>)]
    \cup [command : {"history"}, symbol : Symbols,
          opts : OptsOver(<<FormatFlag, StartFlag, EndFlag, <<"interval", {Str("1wk"), Str("")}>>>>)]
    \cup [command : {"news"}, symbol : Symbols,
          opts : OptsOver(<<FormatFlag, <<"limit", {Num(0), Num(5)}>>, StartFlag, EndFlag>>)]
    \cup [command : {"technical"}, symbol : Symbols,
          opts : OptsOver(<<FormatFlag, <<"indicators", IndicatorLists>>,
                            <<"period", {Num(5)}>>, StartFlag>>)]

\* parser.parse_args(): the Namespace of a command line, defaults filled in
ParseArgs(cl) ==
    LET base == [command |-> cl.command, symbol |-> cl.symbol, provider |-> "yfinance",
                 format |-> Get(cl.opts, "format", Str("json")).s]
    IN CASE cl.command = "quote" -> base
         [] cl.command = "history" ->
              [command |-> base.command, symbol |-> base.symbol,
               provider |-> base.provider, format |-> base.format,
               start |-> Get(cl.opts, "start", None),
               end |-> Get(cl.opts, "end", None),
               interval |-> Get(cl.opts, "interval", Str("1d"))]
         [] cl.command = "news" ->
              [command |-> base.command, symbol |-> base.symbol,
               provider |-> base.provider, format |-> base.format,
               limit |-> Get(cl.opts, "limit", Num(10)),
               start |-> Get(cl.opts, "start", None),
               end |-> Get(cl.opts, "end", None)]
         [] cl.command = "technical" ->
              [command |-> base.command, symbol |-> base.symbol,
               provider |-> base.provider, format |-> base.format,
               indicators |-> Get(cl.opts, "indicators", Str("rsi,macd,sma")).s,
               period |-> Get(cl.opts, "period", Num(14)).v,
               start |-> Get(cl.opts, "start", None)]

\* bool(x)
Truthy(x) ==
    CASE x.t = "none" -> FALSE
      [] x.t = "num" -> x.v # 0
      [] x.t = "str" -> x.s # ""

-----------------------------------------------------------------------------
(* The external facility: every call raises, or returns a result *)

ErrorTexts == {"timeout", "bad symbol"}

Raised(msg) == [raised |-> TRUE, msg |-> msg]

Returns(records) == [raised |-> FALSE, results |-> records]

\* answers of equity.price.quote, equity.price.historical and news.company
CommandOutcomes(symbol) ==
    {Raised(m) : m \in ErrorTexts}
    \cup {Returns(<<>>),
          Returns(<< <<<<"symbol", Str(symbol)>>, <<"close", Num(185)>>>> >>),
          Returns(<< <<<<"date", Str("2024-01-02")>>, <<"close", Num(181)>>>>,
                     <<<<"date", Str("2024-01-03")>>, <<"close", None>>>> >>)}

\* answers of equity.price.historical to cmd_technical
HistoryOutcomes ==
    {Raised(m) : m \in ErrorTexts}
    \cup {Returns(<<>>),
          Returns(<< <<<<"date", Str("2024-01-02")>>, <<"close", Num(181)>>>>,
                     <<<<"date", Str("2024-01-03")>>, <<"close", Num(182)>>>> >>)}

\* the value columns of one indicator, as the provider names them
IndicatorColumns(name, length) ==
    LET n == IntToStr(length)
    IN CASE name = "rsi" -> <<"close_RSI_" \o n>>
         [] name = "macd" ->
              <<"close_MACD_12_26_9", "close_MACDh_12_26_9", "close_MACDs_12_26_9">>
         [] name = "sma" -> <<"close_SMA_" \o n>>
         [] name = "ema" -> <<"close_EMA_" \o n>>
         [] name = "bbands" ->
              <<"close_BBL_" \o n \o "_2.0", "close_BBM_" \o n \o "_2.0",
                "close_BBU_" \o n \o "_2.0">>
         [] name = "adx" -> <<"ADX_" \o n, "DMP_" \o n, "DMN_" \o n>>
         [] name = "stoch" -> <<"STOCHk_14_3_3", "STOCHd_14_3_3">>

\* a series of n records; the cell of column c in record i is 7 * i + c, so
\* that no two records of a series agree
ProviderSeries(name, length, n) ==
    LET cols == IndicatorColumns(name, length)
    IN [i \in 1..n |->
          <<<<"date", Num(i)>>>> \o [c \in 1..Len(cols) |-> <<cols[c], Num(7 * i + c)>>]]

SeriesLengths == {0, MaxRecords}

\* answers of technical.<name>(data=..., length=...)
IndicatorOutcomes(name, length) ==
    {Raised(m) : m \in ErrorTexts}
    \cup {Returns(ProviderSeries(name, length, n)) : n \in SeriesLengths}

-----------------------------------------------------------------------------
(* Handlers *)

\* one call on the facility, with the answer it got
Call(f, kwargs, r) == [fn |-> f, kwargs |-> kwargs, answer |-> r]

\* json.dumps({"error": msg, "symbol": symbol})
ErrorDoc(msg, symbol) ==
    [kind |-> "json", shape |-> "dict",
     value |-> <<<<"error", Str(msg)>>, <<"symbol", Str(symbol)>>>>]

print_without_exit_status(doc, status) ==
    /\ out' = Append(out, doc)
    /\ exitStatus' = 0
    /\ pc' = "exit"

\* print(doc), then leave the process with the status
PrintAndExit(doc, status) ==
    /\ out' = Append(out, doc)
    /\ exitStatus' = status
    /\ pc' = "exit"

empty_result_printed(r, emptyText) ==
    IF r.raised THEN PrintAndExit(ErrorDoc(r.msg, args.symbol), 1)
    ELSE PrintAndExit(format_output(r.results, TRUE, args.format), 0)

error_through_format_output(r, emptyText) ==
    IF r.raised
    THEN PrintAndExit(format_output(ErrorDoc(r.msg, args.symbol).value, FALSE, args.format), 1)
    ELSE IF Len(r.results) > 0
         THEN PrintAndExit(format_output(r.results, TRUE, args.format), 0)
         ELSE PrintAndExit(ErrorDoc(emptyText, args.symbol), 1)

\* if result.results: print the formatted records, else the error object and exit 1;
\* except Exception as e: the error object of str(e) and exit 1
FinishCommand(r, emptyText) ==
    IF r.raised THEN PrintAndExit(ErrorDoc(r.msg, args.symbol), 1)
    ELSE IF Len(r.results) > 0
         THEN PrintAndExit(format_output(r.results, TRUE, args.format), 0)
         ELSE PrintAndExit(ErrorDoc(emptyText, args.symbol), 1)

BaseKwargs == <<<<"symbol", Str(args.symbol)>>, <<"provider", Str(args.provider)>>>>

with_opt_always(kwargs, key, value) == Put(kwargs, key, value)

\* if args.<name>: kwargs[key] = args.<name>
WithOpt(kwargs, key, value) == IF Truthy(value) THEN Put(kwargs, key, value) ELSE kwargs

cmd_quote ==
    /\ pc = "main" /\ args.command = "quote"
    /\ \E r \in CommandOutcomes(args.symbol) :
          /\ calls' = Append(calls, Call("equity.price.quote", BaseKwargs, r))
          /\ FinishCommand(r, "No data returned")
    /\ UNCHANGED <<argv, args, history, indicators, results, idx>>
    /\ UNCHANGED fnVars

cmd_history ==
    /\ pc = "main" /\ args.command = "history"
    /\ LET kwargs == WithOpt(WithOpt(WithOpt(BaseKwargs, "start_date", args.start),
                                     "end_date", args.end),
                             "interval", args.interval)
       IN \E r \in CommandOutcomes(args.symbol) :
             /\ calls' = Append(calls, Call("equity.price.historical", kwargs, r))
             /\ FinishCommand(r, "No data returned")
    /\ UNCHANGED <<argv, args, history, indicators, results, idx>>
    /\ UNCHANGED fnVars

cmd_news ==
    /\ pc = "main" /\ args.command = "news"
    /\ LET kwargs == WithOpt(WithOpt(WithOpt(BaseKwargs, "limit", args.limit),
                                     "start_date", args.start),
                             "end_date", args.end)
       IN \E r \in CommandOutcomes(args.symbol) :
             /\ calls' = Append(calls, Call("news.company", kwargs, r))
             /\ FinishCommand(r, "No news found")
    /\ UNCHANGED <<argv, args, history, indicators, results, idx>>
    /\ UNCHANGED fnVars

(* cmd_technical *)

SupportedIndicators == {"rsi", "macd", "sma", "ema", "bbands", "adx", "stoch"}

Whitespace == {" ", "\t", "\n"}

\* s.strip()
RECURSIVE Strip(_)
Strip(s) ==
    IF Len(s) = 0 THEN s
    ELSE IF SubSeq(s, 1, 1) \in Whitespace THEN Strip(SubSeq(s, 2, Len(s)))
    ELSE IF SubSeq(s, Len(s), Len(s)) \in Whitespace THEN Strip(SubSeq(s, 1, Len(s) - 1))
    ELSE s

UpperCase == "ABCDEFGHIJKLMNOPQRSTUVWXYZ"

LowerCase == "abcdefghijklmnopqrstuvwxyz"

LowerChar(c) ==
    IF \E i \in 1..Len(UpperCase) : SubSeq(UpperCase, i, i) = c
    THEN LET i == CHOOSE j \in 1..Len(UpperCase) : SubSeq(UpperCase, j, j) = c
         IN SubSeq(LowerCase, i, i)
    ELSE c

\* s.lower()
RECURSIVE Lower(_)
Lower(s) ==
    IF Len(s) = 0 THEN s
    ELSE LowerChar(SubSeq(s, 1, 1)) \o Lower(SubSeq(s, 2, Len(s)))

\* s.split(c) for a one-character separator c
RECURSIVE Split(_, _)
Split(s, c) ==
    IF \E i \in 1..Len(s) : SubSeq(s, i, i) = c
    THEN LET i == CHOOSE j \in 1..Len(s) :
                      /\ SubSeq(s, j, j) = c
                      /\ \A k \in 1..(j - 1) : SubSeq(s, k, k) # c
         IN <<SubSeq(s, 1, i - 1)>> \o Split(SubSeq(s, i + 1, Len(s)), c)
    ELSE <<s>>

RECURSIVE Deduplicated(_)
Deduplicated(names) ==
    IF Len(names) = 0 THEN names
    ELSE LET d == Deduplicated(SubSeq(names, 1, Len(names) - 1))
         IN IF \E i \in 1..Len(d) : d[i] = names[Len(names)]
            THEN d ELSE Append(d, names[Len(names)])

parse_indicators_deduplicated(text) ==
    LET parts == Split(text, ",")
    IN Deduplicated([i \in 1..Len(parts) |-> Lower(Strip(parts[i]))])

\* [ind.strip().lower() for ind in args.indicators.split(",")]
ParseIndicators(text) ==
    LET parts == Split(text, ",")
    IN [i \in 1..Len(parts) |-> Lower(Strip(parts[i]))]

first_n(seq, n) == SubSeq(seq, 1, IF Len(seq) < n THEN Len(seq) ELSE n)

\* seq[-n:]
LastN(seq, n) == SubSeq(seq, Max(1, Len(seq) - n + 1), Len(seq))

ErrorEntry(msg) == [error |-> msg]

IsErrorEntry(entry) == "error" \in DOMAIN entry

\* the report of a supported indicator whose call returned the records series
IndicatorReport(name, period, series) ==
    LET data == LastN(series, RecentCount)
        latest == IF Len(data) > 0 THEN data[Len(data)] ELSE <<>>
        n == IntToStr(period)
        val(pattern) == get_indicator_value(latest, pattern)
    IN CASE name = "rsi" ->
              [latest |-> val("RSI_" \o n), period |-> period, recent_data |-> data,
               interpretation |-> interpret_rsi(val("RSI_" \o n))]
         [] name = "macd" ->
              [latest_macd |-> val("MACD_12_26_9"),
               latest_signal |-> val("MACDs_12_26_9"),
               latest_histogram |-> val("MACDh_12_26_9"),
               recent_data |-> data,
               interpretation |->
                   interpret_macd(<<<<"macd", val("MACD_12_26_9")>>,
                                    <<"signal", val("MACDs_12_26_9")>>,
                                    <<"histogram", val("MACDh_12_26_9")>>>>)]
         [] name = "sma" ->
              [latest |-> val("SMA_" \o n), period |-> period, recent_data |-> data]
         [] name = "ema" ->
              [latest |-> val("EMA_" \o n), period |-> period, recent_data |-> data]
         [] name = "bbands" ->
              [upper |-> val("BBU_" \o n), middle |-> val("BBM_" \o n),
               lower |-> val("BBL_" \o n), period |-> period, recent_data |-> data]
         [] name = "adx" ->
              [latest |-> val("ADX_" \o n), period |-> period, recent_data |-> data,
               interpretation |-> interpret_adx(val("ADX_" \o n))]
         [] name = "stoch" ->
              [k |-> val("STOCHk_14_3_3"), d |-> val("STOCHd_14_3_3"),
               recent_data |-> data,
               interpretation |->
                   interpret_stoch(<<<<"k", val("STOCHk_14_3_3")>>,
                                     <<"d", val("STOCHd_14_3_3")>>>>)]

\* the keyword arguments of technical.<name>: macd and stoch take no length
IndicatorKwargs(name) ==
    IF name \in {"macd", "stoch"}
    THEN <<<<"data", history>>>>
    ELSE <<<<"data", history>>, <<"length", Num(args.period)>>>>

raise_not_recorded(res, name, period, r) ==
    IF r.raised THEN res
    ELSE IF Len(r.results) > 0
         THEN Put(res, name, IndicatorReport(name, period, r.results))
         ELSE res

\* one supported indicator inside the inner try: the report when the call
\* returned records, nothing when it returned none, the error entry when it raised
IndicatorEntry(res, name, period, r) ==
    IF r.raised THEN Put(res, name, ErrorEntry(r.msg))
    ELSE IF Len(r.results) > 0
         THEN Put(res, name, IndicatorReport(name, period, r.results))
         ELSE res

UnsupportedText(name) == "Unsupported indicator: " \o name

unsupported_dropped(res, name) == res

\* else: results["indicators"][indicator] = {"error": ...}
UnsupportedEntry(res, name) == Put(res, name, ErrorEntry(UnsupportedText(name)))

\* results, as handed to format_output
ResultsDoc(res) == <<<<"symbol", Str(args.symbol)>>, <<"indicators", res>>>>

\* hist_kwargs, the history fetch, and the setup of the loop
cmd_technical_history ==
    /\ pc = "main" /\ args.command = "technical"
    /\ LET hist_kwargs ==
              Put(BaseKwargs, "start_date",
                  IF Truthy(args.start) THEN args.start ELSE Str("now-365d"))
       IN \E r \in HistoryOutcomes :
             /\ calls' = Append(calls, Call("equity.price.historical", hist_kwargs, r))
             /\ IF r.raised
                THEN /\ PrintAndExit(ErrorDoc(r.msg, args.symbol), 1)
                     /\ UNCHANGED <<history, indicators, results, idx>>
                ELSE IF Len(r.results) = 0
                THEN /\ PrintAndExit(
                            ErrorDoc("No historical data for technical analysis",
                                     args.symbol), 1)
                     /\ UNCHANGED <<history, indicators, results, idx>>
                ELSE /\ history' = r.results
                     /\ indicators' = ParseIndicators(args.indicators)
                     /\ results' = <<>>
                     /\ idx' = 1
                     /\ pc' = "loop"
                     /\ UNCHANGED <<out, exitStatus>>
    /\ UNCHANGED <<argv, args>>
    /\ UNCHANGED fnVars

\* the end of an iteration: the next indicator, or print(format_output(results))
\* and the return of the handler after the last one
EndIteration ==
    IF idx < Len(indicators)
    THEN /\ idx' = idx + 1
         /\ UNCHANGED <<pc, out, exitStatus>>
    ELSE /\ idx' = idx + 1
         /\ PrintAndExit(format_output(ResultsDoc(results'), FALSE, args.format), 0)

\* one iteration of `for indicator in indicators`
cmd_technical_indicator ==
    /\ pc = "loop" /\ idx <= Len(indicators)
    /\ LET name == indicators[idx]
       IN IF name \in SupportedIndicators
          THEN \E r \in IndicatorOutcomes(name, args.period) :
                  /\ calls' = Append(calls, Call("technical." \o name, IndicatorKwargs(name), r))
                  /\ results' = IndicatorEntry(results, name, args.period, r)
          ELSE /\ results' = UnsupportedEntry(results, name)
               /\ UNCHANGED calls
    /\ EndIteration
    /\ UNCHANGED <<argv, args, history, indicators>>
    /\ UNCHANGED fnVars

Init ==
    /\ pc = "main"
    /\ argv \in CommandLines
    /\ args = ParseArgs(argv)
    /\ out = <<>>
    /\ exitStatus = 0
    /\ history = <<>>
    /\ indicators = <<>>
    /\ results = <<>>
    /\ idx = 0
    /\ calls = <<>>
    /\ fn = "" /\ fnArgs = <<>> /\ fnDone = FALSE /\ fnResult = None

Next ==
    \/ cmd_quote
    \/ cmd_history
    \/ cmd_news
    \/ cmd_technical_history
    \/ cmd_technical_indicator

Spec == Init /\ [][Next]_vars

-----------------------------------------------------------------------------
(* Runs of cmd_technical alone, on long --indicators lists: one name given *)
(* up to MaxRepeat times, and all seven supported names with one           *)
(* unsupported name after them.                                            *)

\* most repetitions of one name in an --indicators list
MaxRepeat == 8

RepeatedLists ==
    {Str(Join(",", [i \in 1..n |-> "rsi"])) : n \in 1..MaxRepeat}

AllSupportedList == Str("rsi,macd,sma,ema,bbands,adx,stoch,Foo ")

TechCommandLines ==
    [command : {"technical"}, symbol : {"AAPL"},
     opts : {<<<<"indicators", l>>>> : l \in RepeatedLists \cup {AllSupportedList}}]

TechInit ==
    /\ pc = "main"
    /\ argv \in TechCommandLines
    /\ args = ParseArgs(argv)
    /\ out = <<>>
    /\ exitStatus = 0
    /\ history = <<>>
    /\ indicators = <<>>
    /\ results = <<>>
    /\ idx = 0
    /\ calls = <<>>
    /\ fn = "" /\ fnArgs = <<>> /\ fnDone = FALSE /\ fnResult = None

TechNext ==
    \/ cmd_technical_history
    \/ cmd_technical_indicator

TechSpec == TechInit /\ [][TechNext]_vars

-----------------------------------------------------------------------------
(* Pure-function runs: Init draws a function and its arguments, one action *)
(* per function applies it.                                                *)

OptNum(S) == {None} \cup {Num(v) : v \in S}

\* the dicts that give a value of V to some of the keys, in the order of keys
RECURSIVE DictsOver(_, _)
DictsOver(keys, V) ==
    IF Len(keys) = 0 THEN {<<>>}
    ELSE LET rest == DictsOver(Tail(keys), V)
         IN rest \cup {<<<<Head(keys), v>>>> \o r : v \in V, r \in rest}

\* the dicts of at most n keys of K, in every insertion order, with values of V
RECURSIVE Mappings(_, _, _)
Mappings(K, V, n) ==
    IF n = 0 THEN {<<>>}
    ELSE LET S == Mappings(K, V, n - 1)
         IN S \cup {Append(t[1], <<t[2], t[3]>>) :
                        t \in {u \in S \X K \X V : ~HasKey(u[1], u[2])}}

TableKeys == {"name", "p", "id"}

TableValues == {Str("AAPL"), Num(12), None}

FieldKeys == {"", "date", "RSI_14", "close_RSI_14"}

FieldPatterns == {"", "RSI_14", "RSI", "SMA"}

FieldValues == {None, Num(1), Num(2)}

\* the series with the value cells of its last record null
WithNullLast(series) ==
    [i \in 1..Len(series) |->
        IF i < Len(series) THEN series[i]
        ELSE [c \in 1..Len(series[i]) |->
                 IF c = 1 THEN series[i][c] ELSE <<series[i][c][1], None>>]]

\* the series an indicator call may return: every length up to MaxRecords
SeriesFamily(name, length) ==
    {ProviderSeries(name, length, n) : n \in 0..MaxRecords}
    \cup {WithNullLast(ProviderSeries(name, length, n)) : n \in 1..MaxRecords}

FnNames ==
    {"interpret_rsi", "interpret_macd", "interpret_adx", "interpret_stoch",
     "format_output", "get_indicator_value", "indicator_entry"}

FnInputs(f) ==
    CASE f = "interpret_rsi" -> {<<v>> : v \in OptNum(0..MaxRsi)}
      [] f = "interpret_adx" -> {<<v>> : v \in OptNum(0..MaxRsi)}
      [] f = "interpret_macd" ->
            {<<d>> : d \in DictsOver(<<"macd", "signal", "histogram">>,
                                     OptNum((0 - MaxMacd)..MaxMacd))}
      [] f = "interpret_stoch" ->
            {<<d>> : d \in DictsOver(<<"k", "d">>, OptNum(0..MaxStoch))}
      [] f = "format_output" ->
            {<<<<a, b>>, "table">> : a \in Mappings(TableKeys, TableValues, MaxCols),
                                     b \in Mappings(TableKeys, TableValues, MaxCols)}
      [] f = "get_indicator_value" ->
            {<<d, p>> : d \in Mappings(FieldKeys, FieldValues, MaxKeys),
                        p \in FieldPatterns}
      [] f = "indicator_entry" ->
            UNION {{<<name, period, series>> : series \in SeriesFamily(name, period)} :
                      name \in SupportedIndicators, period \in {5, 14}}

FnInit ==
    /\ pc = "fn"
    /\ argv = <<>> /\ args = <<>> /\ out = <<>> /\ exitStatus = 0 /\ history = <<>>
    /\ indicators = <<>> /\ results = <<>> /\ idx = 0 /\ calls = <<>>
    /\ fn \in FnNames
    /\ fnArgs \in FnInputs(fn)
    /\ fnDone = FALSE
    /\ fnResult = None

Return(f, value) ==
    /\ pc = "fn" /\ fn = f /\ ~fnDone
    /\ fnDone' = TRUE
    /\ fnResult' = value
    /\ UNCHANGED <<fn, fnArgs>>
    /\ UNCHANGED handlerVars

CallInterpretRsi == Return("interpret_rsi", interpret_rsi(fnArgs[1]))

CallInterpretMacd == Return("interpret_macd", interpret_macd(fnArgs[1]))

CallInterpretAdx == Return("interpret_adx", interpret_adx(fnArgs[1]))

CallInterpretStoch == Return("interpret_stoch", interpret_stoch(fnArgs[1]))

CallFormatOutput == Return("format_output", format_output(fnArgs[1], TRUE, fnArgs[2]))

CallGetIndicatorValue ==
    Return("get_indicator_value", get_indicator_value(fnArgs[1], fnArgs[2]))

\* the body of one loop iteration of cmd_technical for a supported indicator
\* whose call returned fnArgs[3], starting from an empty indicators mapping
CallIndicatorEntry ==
    Return("indicator_entry",
           IndicatorEntry(<<>>, fnArgs[1], fnArgs[2], Returns(fnArgs[3])))

FnNext ==
    \/ CallInterpretRsi
    \/ CallInterpretMacd
    \/ CallInterpretAdx
    \/ CallInterpretStoch
    \/ CallFormatOutput
    \/ CallGetIndicatorValue
    \/ CallIndicatorEntry

FnSpec == FnInit /\ [][FnNext]_vars

-----------------------------------------------------------------------------
(* Properties of the pure functions, checked under FnSpec *)

Returned(f) == pc = "fn" /\ fn = f /\ fnDone

\* C6: interpret_rsi returns "cannot compute" for null, the overbought caption
\* for every v >= 70, the oversold caption for every v <= 30, the bullish
\* caption for every 50 <= v < 70 and the bearish caption for every 30 < v < 50.
RsiCaptionByRange ==
    Returned("interpret_rsi") =>
        LET value == fnArgs[1]
        IN /\ IsNone(value) => fnResult = "cannot compute"
           /\ ~IsNone(value) =>
                /\ value.v >= 70 => fnResult = "rsi overbought"
                /\ value.v <= 30 => fnResult = "rsi oversold"
                /\ (50 <= value.v /\ value.v < 70) => fnResult = "rsi bullish"
                /\ (30 < value.v /\ value.v < 50) => fnResult = "rsi bearish"

\* interpret_rsi has returned for the boundary value 50
RsiBoundarySeen ==
    /\ Returned("interpret_rsi")
    /\ fnArgs[1] = Num(50)
    /\ fnResult = "rsi bullish"

\* C7: interpret_macd returns "cannot compute" when macd or signal is absent;
\* otherwise, with histogram = macd - signal when histogram is absent, the
\* golden-cross caption iff macd > signal and histogram > 0, else the
\* death-cross caption iff macd < signal and histogram < 0, else the
\* above-zero caption iff macd > 0, else the below-zero caption.
MacdCaptionByCase ==
    Returned("interpret_macd") =>
        LET data == fnArgs[1]
            absent(k) == ~HasKey(data, k) \/ IsNone(Get(data, k, None))
        IN IF absent("macd") \/ absent("signal")
           THEN fnResult = "cannot compute"
           ELSE LET m == Get(data, "macd", None).v
                    s == Get(data, "signal", None).v
                    h == IF absent("histogram") THEN m - s
                         ELSE Get(data, "histogram", None).v
                    golden == m > s /\ h > 0
                    death == m < s /\ h < 0
                IN /\ fnResult = "macd golden cross" <=> golden
                   /\ fnResult = "macd death cross" <=> (~golden /\ death)
                   /\ fnResult = "macd above zero" <=> (~golden /\ ~death /\ m > 0)
                   /\ fnResult = "macd below zero" <=> (~golden /\ ~death /\ m <= 0)

\* interpret_macd has returned for a supplied histogram whose sign disagrees
\* with macd - signal
MacdDisagreeingHistogramSeen ==
    /\ Returned("interpret_macd")
    /\ fnArgs[1] = <<<<"macd", Num(2)>>, <<"signal", Num(1)>>, <<"histogram", Num(-1)>>>>
    /\ fnResult = "macd above zero"

\* C8: interpret_stoch returns "cannot compute" when k or d is absent; otherwise
\* the overbought caption iff k >= 80 and d >= 80, else the oversold caption iff
\* k <= 20 and d <= 20, else the "K above D" caption iff k > d, else the
\* "K below D" caption, which covers k = d.
StochCaptionByCase ==
    Returned("interpret_stoch") =>
        LET data == fnArgs[1]
            absent(n) == ~HasKey(data, n) \/ IsNone(Get(data, n, None))
        IN IF absent("k") \/ absent("d")
           THEN fnResult = "cannot compute"
           ELSE LET k == Get(data, "k", None).v
                    d == Get(data, "d", None).v
                    over == k >= 80 /\ d >= 80
                    under == k <= 20 /\ d <= 20
                IN /\ fnResult = "stoch overbought" <=> over
                   /\ fnResult = "stoch oversold" <=> (~over /\ under)
                   /\ fnResult = "stoch k above d" <=> (~over /\ ~under /\ k > d)
                   /\ fnResult = "stoch k below d" <=> (~over /\ ~under /\ k <= d)

\* interpret_stoch has returned for k = d outside both extreme zones
StochEqualSeen ==
    /\ Returned("interpret_stoch")
    /\ fnArgs[1] = <<<<"k", Num(50)>>, <<"d", Num(50)>>>>
    /\ fnResult = "stoch k below d"

TableLines == Split(fnResult.text, "\n")

\* C9 as stated: for every list of two mappings the table text contains every
\* column header of the records and every cell value of both records, laid out
\* as a header row, a separator row and one row per record.
TableShowsEveryHeaderAndCell ==
    Returned("format_output") =>
        /\ fnResult.kind = "table"
        /\ \A r \in 1..2 : \A i \in 1..Len(fnArgs[1][r]) :
              /\ Contains(fnResult.text, fnArgs[1][r][i][1])
              /\ Contains(fnResult.text, PyStr(fnArgs[1][r][i][2]))
        /\ Len(TableLines) = 4

\* C9 amended: the table text has four lines: a header row that contains every
\* key of the first record, a separator row of dashes and "+", and one row per
\* record that contains the string form of the record's cell under every key
\* of the first record (nothing for a key the record lacks).  Keys that only
\* the second record has are not rendered.
TableShowsFirstRecordColumns ==
    Returned("format_output") =>
        LET data == fnArgs[1]
            headers == Keys(data[1])
        IN /\ fnResult.kind = "table"
           /\ Len(TableLines) = 4
           /\ \A i \in 1..Len(headers) : Contains(TableLines[1], headers[i])
           /\ \A j \in 1..Len(TableLines[2]) :
                 SubSeq(TableLines[2], j, j) \in {"-", "+"}
           /\ \A r \in 1..2 : \A i \in 1..Len(headers) :
                 Contains(TableLines[2 + r], PyStr(Get(data[r], headers[i], Str(""))))
           /\ \A r \in 1..2 : \A i \in 1..Len(headers) :
                 HasKey(data[r], headers[i]) =>
                     Contains(fnResult.text, PyStr(Get(data[r], headers[i], None)))

\* a table has been rendered for two records of two columns with different cells
TableOfTwoRecordsSeen ==
    /\ Returned("format_output")
    /\ fnArgs[1] = << <<<<"name", Str("AAPL")>>, <<"p", Num(12)>>>>,
                      <<<<"name", None>>, <<"p", Str("AAPL")>>>> >>
    /\ Len(TableLines) = 4

FirstMatch(data, pattern) ==
    CHOOSE j \in 1..Len(data) :
        /\ Contains(data[j][1], pattern)
        /\ \A k \in 1..(j - 1) : ~Contains(data[k][1], pattern)

\* C10 as stated: get_indicator_value returns the value stored under the first
\* key, in iteration order, that contains the pattern, and returns null exactly
\* when no key contains the pattern.
FieldValueNullIffNoMatch ==
    Returned("get_indicator_value") =>
        LET data == fnArgs[1]
            pattern == fnArgs[2]
            matches == \E i \in 1..Len(data) : Contains(data[i][1], pattern)
        IN /\ matches => fnResult = data[FirstMatch(data, pattern)][2]
           /\ IsNone(fnResult) <=> ~matches

\* C10 amended: get_indicator_value returns the value stored under the first
\* key, in iteration order, that contains the pattern, unless that key is the
\* empty string; it returns null when no key contains the pattern, when the
\* first matching key is the empty string, and when the value stored under the
\* first matching key is itself null.
FieldValueOfFirstMatch ==
    Returned("get_indicator_value") =>
        LET data == fnArgs[1]
            pattern == fnArgs[2]
            matches == \E i \in 1..Len(data) : Contains(data[i][1], pattern)
        IN /\ (matches /\ data[FirstMatch(data, pattern)][1] # "") =>
                 fnResult = data[FirstMatch(data, pattern)][2]
           /\ IsNone(fnResult) <=>
                 \/ ~matches
                 \/ data[FirstMatch(data, pattern)][1] = ""
                 \/ IsNone(data[FirstMatch(data, pattern)][2])

\* two keys contain the pattern and the value of the first one came back
FieldSecondMatchIgnoredSeen ==
    /\ Returned("get_indicator_value")
    /\ fnArgs = << <<<<"close_RSI_14", Num(1)>>, <<"RSI_14", Num(2)>>>>, "RSI_14" >>
    /\ fnResult = Num(1)

-----------------------------------------------------------------------------
(* Properties of the handlers, checked under Spec *)

\* the document is a JSON object with the key "error"
IsErrorDoc(doc) ==
    doc.kind = "json" /\ doc.shape = "dict" /\ HasKey(doc.value, "error")

\* the command-level call has been made and answered
FirstCallMade == pc # "fn" /\ Len(calls) >= 1

FirstCallEmpty ==
    FirstCallMade /\ ~calls[1].answer.raised /\ Len(calls[1].answer.results) = 0

FirstCallRaised == FirstCallMade /\ calls[1].answer.raised

\* cmd_technical has returned after a history fetch that brought records
TechnicalReturned ==
    /\ pc = "exit" /\ args.command = "technical"
    /\ ~calls[1].answer.raised /\ Len(calls[1].answer.results) > 0

\* the indicators mapping of the printed result
PrintedIndicators == Get(out[1].value, "indicators", <<>>)

PrintedEntry(name) == Get(PrintedIndicators, name, [missing |-> TRUE])

IsReport(entry) == "recent_data" \in DOMAIN entry /\ Len(entry.recent_data) > 0

\* the positions in calls of the indicator calls made for name
CallsFor(name) == {k \in 2..Len(calls) : calls[k].fn = "technical." \o name}

CallRaised(k) == calls[k].answer.raised

CallReturnedRecords(k) == ~calls[k].answer.raised /\ Len(calls[k].answer.results) > 0

RequestedNames == {indicators[i] : i \in 1..Len(indicators)}

\* C1 as stated: whenever the call of an indicator raised, the command exits
\* 0, the entry of that indicator is the error entry of the exception's string
\* form, and every other requested indicator whose call returned records (and
\* did not raise) has its report printed.
RaisedIndicatorKeepsErrorEntry ==
    TechnicalReturned =>
        \A n \in RequestedNames : \A j \in CallsFor(n) :
            CallRaised(j) =>
                /\ exitStatus = 0
                /\ PrintedEntry(n) = ErrorEntry(calls[j].answer.msg)
                /\ \A m \in RequestedNames \ {n} :
                      (/\ \E k \in CallsFor(m) : CallReturnedRecords(k)
                       /\ \A k \in CallsFor(m) : ~CallRaised(k)) =>
                          IsReport(PrintedEntry(m))

\* the last call for name that raised or returned records
LastDecisiveCall(name) ==
    CHOOSE k \in CallsFor(name) :
        /\ CallRaised(k) \/ CallReturnedRecords(k)
        /\ \A m \in CallsFor(name) :
              (CallRaised(m) \/ CallReturnedRecords(m)) => m <= k

\* C1 amended: an indicator call that raises never ends the command: it exits
\* 0 with one printed result.  The entry printed under a name is decided by the
\* last request of that name whose call raised or returned records: the error
\* entry holding that exception's string form if it raised, the populated
\* report if it returned records.  So with every name requested once, the
\* raising indicator has its error entry and every other indicator whose call
\* returned records has its report.
LastDecisiveCallDecidesEntry ==
    TechnicalReturned =>
        /\ exitStatus = 0
        /\ Len(out) = 1 /\ ~IsErrorDoc(out[1])
        /\ \A n \in RequestedNames \cap SupportedIndicators :
              (\E k \in CallsFor(n) : CallRaised(k) \/ CallReturnedRecords(k)) =>
                  LET k == LastDecisiveCall(n)
                  IN IF CallRaised(k)
                     THEN PrintedEntry(n) = ErrorEntry(calls[k].answer.msg)
                     ELSE /\ IsReport(PrintedEntry(n))
                          /\ PrintedEntry(n).recent_data =
                                LastN(calls[k].answer.results, RecentCount)

\* two different indicators were requested, the call of the first raised, the
\* call of the second returned records, and the command has returned
RaiseBesideReportSeen ==
    /\ TechnicalReturned
    /\ Len(calls) = 3
    /\ calls[2].fn # calls[3].fn
    /\ CallRaised(2) /\ CallReturnedRecords(3)
    /\ exitStatus = 0

UpperChars == {SubSeq(UpperCase, j, j) : j \in 1..Len(UpperCase)}

IsLowerTrimmed(name) ==
    /\ \A i \in 1..Len(name) : SubSeq(name, i, i) \notin UpperChars
    /\ Len(name) > 0 =>
          /\ SubSeq(name, 1, 1) \notin Whitespace
          /\ SubSeq(name, Len(name), Len(name)) \notin Whitespace

\* C2: a requested name that, trimmed and lower-cased, is none of rsi, macd,
\* sma, ema, bbands, adx, stoch gets the entry "Unsupported indicator: <name>"
\* under that name, no indicator call is made for it, every supported indicator
\* requested alongside whose calls returned records has its report, and the
\* command exits 0.
UnsupportedIndicatorEntry ==
    TechnicalReturned =>
        /\ Len(indicators) = Len(Split(args.indicators, ","))
        /\ \A n \in RequestedNames : IsLowerTrimmed(n)
        /\ \A n \in RequestedNames \ SupportedIndicators :
              /\ exitStatus = 0
              /\ PrintedEntry(n) = ErrorEntry("Unsupported indicator: " \o n)
              /\ CallsFor(n) = {}
              /\ Len(calls) - 1 =
                    Cardinality({i \in 1..Len(indicators) :
                                    indicators[i] \in SupportedIndicators})
              /\ \A m \in RequestedNames \cap SupportedIndicators :
                    (\A k \in CallsFor(m) : CallReturnedRecords(k)) =>
                        IsReport(PrintedEntry(m))

\* "Foo " was requested after " RSI", whose call returned records
UnsupportedBesideReportSeen ==
    /\ TechnicalReturned
    /\ args.indicators = " RSI,Foo "
    /\ indicators = <<"rsi", "foo">>
    /\ Len(calls) = 2 /\ CallReturnedRecords(2)
    /\ PrintedEntry("foo") = ErrorEntry("Unsupported indicator: foo")
    /\ IsReport(PrintedEntry("rsi"))

\* C3: in each of the four handlers, when the command-level call returns an
\* empty result the handler prints one JSON object with the key "error" and
\* the queried symbol, prints no data, and exits 1; in cmd_technical no
\* indicator is processed.
EmptyResultExitsOne ==
    FirstCallEmpty =>
        /\ pc = "exit" /\ exitStatus = 1
        /\ Len(out) = 1 /\ IsErrorDoc(out[1])
        /\ Get(out[1].value, "symbol", None) = Str(argv.symbol)
        /\ Len(calls) = 1 /\ results = <<>> /\ idx = 0

\* the history fetch of cmd_technical returned an empty result
EmptyHistoryInTechnicalSeen ==
    /\ FirstCallEmpty
    /\ args.command = "technical"
    /\ pc = "exit"

\* C4: in each of the four handlers, when the command-level call raises, the
\* handler prints one JSON error object holding the symbol and the exception's
\* string form and exits 1, whichever format was selected.
RaisedCallExitsOne ==
    FirstCallRaised =>
        /\ pc = "exit" /\ exitStatus = 1
        /\ Len(out) = 1 /\ IsErrorDoc(out[1])
        /\ Get(out[1].value, "error", None) = Str(calls[1].answer.msg)
        /\ Get(out[1].value, "symbol", None) = Str(argv.symbol)
        /\ Len(calls) = 1

\* the news call raised under the table format
RaisedUnderTableFormatSeen ==
    /\ FirstCallRaised
    /\ args.command = "news" /\ args.format = "table"
    /\ pc = "exit"

\* C5: when cmd_technical exits 0 the printed indicators mapping has an entry
\* for every requested name: a report when the indicator call returned
\* records, and otherwise (no records, a raise, an unsupported name) an entry
\* carrying an error message.
EveryRequestedIndicatorPrinted ==
    (TechnicalReturned /\ exitStatus = 0) =>
        \A n \in RequestedNames :
            /\ HasKey(PrintedIndicators, n)
            /\ IsReport(PrintedEntry(n)) \/ IsErrorEntry(PrintedEntry(n))

-----------------------------------------------------------------------------
(* Order of the calls of cmd_technical, checked under TechSpec *)

IsSupported(name) == name \in SupportedIndicators

\* the names of the command line, trimmed and lower-cased, in the order given;
\* the loop starts (idx = 1) with indicators equal to them and never changes it
NamesAsRequested ==
    LET parts == Split(args.indicators, ",")
    IN [i \in 1..Len(parts) |-> Lower(Strip(parts[i]))]

\* the supported names among the first n of names, repeats included
SupportedAmongFirst(names, n) == SelectSeq(SubSeq(names, 1, n), IsSupported)

HistoryFetchFailed == calls[1].answer.raised \/ Len(calls[1].answer.results) = 0

\* the calls made so far: the history fetch, then one indicator fetch for each
\* name of fetched, in that order
CallsAreHistoryThen(fetched) ==
    /\ Len(calls) = 1 + Len(fetched)
    /\ calls[1].fn = "equity.price.historical"
    /\ \A k \in 2..Len(calls) : calls[k].fn = "technical." \o fetched[k - 1]

\* C11 as stated: a run of cmd_technical makes exactly one history fetch,
\* before any indicator fetch; the indicator fetches follow one at a time in
\* the order requested, one per requested (supported) indicator and never more
\* than seven in total; none is made when the history fetch came back empty or
\* raised.
AtMostSevenIndicatorFetches ==
    (pc # "main" /\ args.command = "technical") =>
        /\ IF HistoryFetchFailed THEN Len(calls) = 1 /\ pc = "exit"
           ELSE /\ idx = 1 => indicators = NamesAsRequested
                /\ CallsAreHistoryThen(SupportedAmongFirst(indicators, idx - 1))
        /\ Len(calls) - 1 <= Cardinality(SupportedIndicators)

\* C11 amended: a run of cmd_technical makes exactly one history fetch, before
\* any indicator fetch; the indicator fetches follow one at a time in the order
\* requested, one for every occurrence of a supported name in the list (none
\* for an unsupported name), so at most seven when no name is repeated and
\* more than seven when repeats make the list longer; none is made when the
\* history fetch came back empty or raised.
OneFetchPerSupportedOccurrence ==
    (pc # "main" /\ args.command = "technical") =>
        /\ IF HistoryFetchFailed THEN Len(calls) = 1 /\ pc = "exit"
           ELSE /\ idx = 1 => indicators = NamesAsRequested
                /\ CallsAreHistoryThen(SupportedAmongFirst(indicators, idx - 1))
                /\ pc = "exit" <=> idx = Len(indicators) + 1
        /\ Cardinality({indicators[i] : i \in 1..Len(indicators)}) = Len(indicators) =>
              Len(calls) - 1 <= Cardinality(SupportedIndicators)

\* all seven supported names and one unsupported name were requested, and the
\* run has returned after seven indicator fetches
SevenFetchesSeen ==
    /\ pc = "exit" /\ args.command = "technical"
    /\ Len(indicators) = 8
    /\ ~HistoryFetchFailed
    /\ Len(calls) = 8
    /\ calls[8].fn = "technical.stoch"

-----------------------------------------------------------------------------
(* The report of an indicator, checked under FnSpec *)

\* the fields of a report that hold latest values, each with the provider's
\* column it is read from
LatestFields(name, period) ==
    LET n == IntToStr(period)
    IN CASE name = "rsi" -> <<<<"latest", "close_RSI_" \o n>>>>
         [] name = "macd" ->
              <<<<"latest_macd", "close_MACD_12_26_9">>,
                <<"latest_signal", "close_MACDs_12_26_9">>,
                <<"latest_histogram", "close_MACDh_12_26_9">>>>
         [] name = "sma" -> <<<<"latest", "close_SMA_" \o n>>>>
         [] name = "ema" -> <<<<"latest", "close_EMA_" \o n>>>>
         [] name = "bbands" ->
              <<<<"upper", "close_BBU_" \o n \o "_2.0">>,
                <<"middle", "close_BBM_" \o n \o "_2.0">>,
                <<"lower", "close_BBL_" \o n \o "_2.0">>>>
         [] name = "adx" -> <<<<"latest", "ADX_" \o n>>>>
         [] name = "stoch" ->
              <<<<"k", "STOCHk_14_3_3">>, <<"d", "STOCHd_14_3_3">>>>

\* C12: for every supported indicator whose call returns n >= 1 records, the
\* report's recent_data is the last min(n, 10) records in their original order
\* and the latest value(s) are the cells of the final record of the series.
ReportFromLastRecords ==
    (Returned("indicator_entry") /\ Len(fnArgs[3]) >= 1) =>
        LET name == fnArgs[1]
            series == fnArgs[3]
            n == Len(series)
            m == IF n < 10 THEN n ELSE 10
            fields == LatestFields(name, fnArgs[2])
        IN /\ Len(fnResult) = 1 /\ fnResult[1][1] = name
           /\ LET report == fnResult[1][2]
              IN /\ ~IsErrorEntry(report)
                 /\ Len(report.recent_data) = m
                 /\ \A i \in 1..m : report.recent_data[i] = series[n - m + i]
                 /\ \A f \in 1..Len(fields) :
                       report[fields[f][1]] = Get(series[n], fields[f][2], None)

\* a report was built from a series longer than ten records whose records all
\* differ, so the latest value is that of the last record only
ReportOfLongSeriesSeen ==
    /\ Returned("indicator_entry")
    /\ fnArgs[1] = "macd"
    /\ Len(fnArgs[3]) > RecentCount
    /\ Len(fnResult[1][2].recent_data) = RecentCount
    /\ fnResult[1][2].latest_signal = Num(7 * Len(fnArgs[3]) + 3)

-----------------------------------------------------------------------------
(* Parameters of the command-level call, checked under Spec *)

\* the optional parameters of the command-level call of each handler, each
\* with the command-line flag it comes from
OptionalParams(command) ==
    CASE command = "quote" -> <<>>
      [] command = "history" ->
           <<<<"start_date", "start">>, <<"end_date", "end">>, <<"interval", "interval">>>>
      [] command = "news" ->
           <<<<"limit", "limit">>, <<"start_date", "start">>, <<"end_date", "end">>>>
      [] command = "technical" -> <<<<"start_date", "start">>>>

\* the keys of the call's keyword arguments are symbol, provider and some of
\* the optional parameters of the command
OnlyKnownParams ==
    LET kwargs == calls[1].kwargs
        params == OptionalParams(argv.command)
    IN /\ Get(kwargs, "symbol", None) = Str(argv.symbol)
       /\ Get(kwargs, "provider", None) = Str("yfinance")
       /\ \A i \in 1..Len(kwargs) :
             \/ kwargs[i][1] \in {"symbol", "provider"}
             \/ \E p \in 1..Len(params) : params[p][1] = kwargs[i][1]

\* C13 as stated: a handler passes an optional parameter iff the user gave it
\* on the command line, so an invocation without optional flags passes only
\* symbol and provider; cmd_technical alone always passes a start date, one
\* year before the invocation when the user gave none.
OptionalParamPassedIffSupplied ==
    FirstCallMade =>
        LET kwargs == calls[1].kwargs
            params == OptionalParams(argv.command)
        IN /\ OnlyKnownParams
           /\ IF argv.command = "technical"
              THEN Get(kwargs, "start_date", None) =
                       Get(argv.opts, "start", Str("now-365d"))
              ELSE \A p \in 1..Len(params) :
                       /\ HasKey(kwargs, params[p][1]) <=> HasKey(argv.opts, params[p][2])
                       /\ HasKey(kwargs, params[p][1]) =>
                             Get(kwargs, params[p][1], None) =
                                 Get(argv.opts, params[p][2], None)

\* the value main() leaves in the Namespace for a flag the user did not give
DefaultOf(flag) ==
    CASE flag = "interval" -> Str("1d")
      [] flag = "limit" -> Num(10)
      [] OTHER -> None

\* C13 amended: a handler passes an optional parameter iff its value in the
\* parsed arguments is truthy, that value being the user's when the flag was
\* given and main()'s default otherwise: none for the start and end dates,
\* "1d" for the interval, 10 for the limit.  So start and end dates are passed
\* iff the user gave a non-empty one; history without flags passes symbol,
\* provider and interval "1d"; news without flags passes symbol, provider and
\* limit 10; a given value that is falsy (limit 0, an empty string) is not
\* passed; quote passes
\* only symbol and provider; cmd_technical always passes a start date, one
\* year before the invocation when the user gave none.
OptionalParamPassedIffTruthy ==
    FirstCallMade =>
        LET kwargs == calls[1].kwargs
            params == OptionalParams(argv.command)
        IN /\ OnlyKnownParams
           /\ IF argv.command = "technical"
              THEN Get(kwargs, "start_date", None) =
                       Get(argv.opts, "start", Str("now-365d"))
              ELSE \A p \in 1..Len(params) :
                       LET value == Get(argv.opts, params[p][2], DefaultOf(params[p][2]))
                       IN /\ HasKey(kwargs, params[p][1]) <=> Truthy(value)
                          /\ HasKey(kwargs, params[p][1]) =>
                                Get(kwargs, params[p][1], None) = value

\* history was invoked without any optional flag and has made its call, with
\* the default interval among the parameters
HistoryWithoutFlagsSeen ==
    /\ FirstCallMade
    /\ argv.command = "history" /\ argv.opts = <<>>
    /\ calls[1].kwargs =
          <<<<"symbol", Str(argv.symbol)>>, <<"provider", Str("yfinance")>>,
            <<"interval", Str("1d")>>>>

-----------------------------------------------------------------------------
(* Output and exit status of the handlers, checked under Spec *)

\* C14: every path through a handler ends after exactly one document was
\* written to standard output: the formatted result with exit status 0, or one
\* JSON error object with exit status 1, never both and never neither; the
\* exit status is 1 iff the document is an error object.  Nothing is written
\* before the handler ends, and a handler that has not ended can take a step.
OneDocumentPerRun ==
    /\ pc \in {"main", "loop"} => (out = <<>> /\ ENABLED Next)
    /\ pc = "exit" =>
          /\ Len(out) = 1
          /\ exitStatus \in {0, 1}
          /\ exitStatus = 1 <=> IsErrorDoc(out[1])
          /\ exitStatus = 0 =>
                \/ /\ args.command = "technical"
                   /\ out[1] = format_output(ResultsDoc(results), FALSE, args.format)
                \/ /\ args.command # "technical"
                   /\ Len(calls[1].answer.results) > 0
                   /\ out[1] = format_output(calls[1].answer.results, TRUE, args.format)

\* cmd_technical has returned with its result printed in the table format,
\* one indicator entry of it being an error entry
ResultWithErrorEntrySeen ==
    /\ pc = "exit" /\ args.command = "technical" /\ args.format = "table"
    /\ exitStatus = 0
    /\ Len(out) = 1
    /\ \E i \in 1..Len(results) : IsErrorEntry(results[i][2])

====
